---------------------------- MODULE Spec2Model ----------------------------
(***************************************************************************)
(* Collection engine of CPC-DATA-EXTRACTION.                               *)
(*                                                                         *)
(*   app/services/task_manager.py   admission (task_semaphore), the job    *)
(*                                  registry TASKS, the _worker thread,    *)
(*                                  stop_task                              *)
(*   core/cpc_data_collector.py     CpcDataCollector: get_declarations,    *)
(*                                  _fetch_single_row, get_row_data,       *)
(*                                  get_values, merge_and_save             *)
(*   app/services/cache_service.py  save_dataset                           *)
(*                                                                         *)
(* Every thread of the program is a process of the model: the request      *)
(* handlers (start_collection_task, stop_task), one _worker thread per     *)
(* job, and the pool threads that run _fetch_single_row.  A step of the    *)
(* model is a stretch of one thread's code that touches the shared state   *)
(* (TASKS, the stop event, the futures) at most at one instant.            *)
(***************************************************************************)
EXTENDS Integers, Sequences, FiniteSets, TLC

(***************************************************************************)
(* Bounds of the model.                                                    *)
(***************************************************************************)
\* start_collection_task calls issued by clients
MaxStarts == 4
\* stop_task calls issued by clients
MaxStops == 2
\* declarations in the remote listing
MaxIds == 3
\* get_values calls on one collector
MaxGetValues == 2

(***************************************************************************)
(* Program constants.                                                      *)
(***************************************************************************)
\* task_manager.py:12  threading.BoundedSemaphore(value=2)
Capacity == 2
\* config.py:10  Config.MAX_WORKERS
MAX_WORKERS == 3

(***************************************************************************)
(* Python values.  Every JSON-like value is a record of one shape, its     *)
(* runtime type in "kind":                                                 *)
(*   "dict"  a dict; "keys" is its key set, the fields hold its values     *)
(*   "list"  a list; "rows" holds its items                                *)
(*   "str"   a scalar; "text" holds it                                     *)
(*   "int"   an integer; "text" holds its decimal digits                   *)
(*   "None"  None                                                          *)
(***************************************************************************)
PyNone == [kind |-> "None", keys |-> {}, headerItems |-> <<>>, rows |-> <<>>,
           cells |-> <<>>, text |-> ""]

PyList(items) == [PyNone EXCEPT !.kind = "list", !.rows = items]

PyStr(s) == [PyNone EXCEPT !.kind = "str", !.text = s]

PyInt(n) == [PyNone EXCEPT !.kind = "int", !.text = ToString(n)]

\* the integers a text can spell here
Digits == 0 .. 9

\* int(v) raises ValueError: v is a string that spells no integer
int_raises(v) == \A n \in Digits : ToString(n) # v.text

\* int(v), for v an integer or a string that spells one
int(v) == CHOOSE n \in Digits : ToString(n) = v.text

\* {"headerItems": [{"name": h}, ...], "rows": rows}
Tabular(headers, rows) ==
    [PyNone EXCEPT !.kind = "dict", !.keys = {"headerItems", "rows"},
                   !.headerItems = headers, !.rows = rows]

\* {"cells": [cell, ...]}, a cell being [title |-> .., value |-> ..]
Cellular(cells) == [PyNone EXCEPT !.kind = "dict", !.keys = {"cells"}, !.cells = cells]

NoTitle == ""

Cell(title, value) == [title |-> title, value |-> value]

Range(s) == {s[i] : i \in DOMAIN s}

\* Python truthiness of a value (`if not rows`)
Truthy(v) ==
    CASE v.kind = "None" -> FALSE
      [] v.kind = "list" -> v.rows # <<>>
      [] v.kind = "str"  -> v.text # ""
      [] v.kind = "int"  -> v.text # "0"
      [] OTHER           -> v.keys # {}

(***************************************************************************)
(* The remote API.  DetailSection(id) is the section found at the key      *)
(* chain in the detail document of declaration id.                         *)
(***************************************************************************)
Ids == 1 .. 4

DetailSection(id) ==
    CASE id = 1 -> Tabular(<<"A", "B">>, << PyList(<<"10", "20">>) >>)
      [] id = 2 -> PyList(<<>>)
      [] id = 3 -> Cellular(<< Cell("note", PyStr("x")),
                               Cell(NoTitle, Tabular(<<"C">>,
                                    << PyList(<<"30">>), PyList(<<"40">>) >>)) >>)
      [] OTHER  -> PyList(<< Cellular(<< Cell("T", PyStr("50")),
                                        Cell(NoTitle, PyStr("60")) >>) >>)

\* The shapes a section takes: tabular with a row, tabular without rows, an
\* empty list, cells of which two hold a table, cells that hold no table, a
\* bare list of a cell row and a list row, and a scalar.
SectionShapes ==
    << Tabular(<<"A", "B">>, << PyList(<<"10", "20">>) >>),
       Tabular(<<"A", "B">>, <<>>),
       PyList(<<>>),
       Cellular(<< Cell("first", Tabular(<<"C">>, << PyList(<<"30">>) >>)),
                   Cell("note", PyStr("x")),
                   Cell("second", Tabular(<<"D">>,
                                          << PyList(<<"40">>), PyList(<<"50">>) >>)) >>),
       Cellular(<< Cell("note", PyStr("x")) >>),
       PyList(<< Cellular(<< Cell("T", PyStr("50")), Cell(NoTitle, PyStr("60")) >>),
                 PyList(<<"70">>) >>),
       PyStr("n/a") >>

\* What a detail request can come to: the document holds the section, the
\* document lacks the key chain, or _safe_request raises.
Responses == {"section", "missing", "Timeout"}

\* core/row_config.py rows_dict: row name -> key chain (a list of keys)
rows_dict == [r \in {"real_estate"} |-> <<"data", "sections", "real_estate">>]

RowNames == {"real_estate", "no_such_row"}

\* rows_dict.get(row_name)
key_chain_of(row_name) ==
    IF row_name \in DOMAIN rows_dict THEN rows_dict[row_name] ELSE <<>>

(***************************************************************************)
(* CpcDataCollector: the pure part.                                        *)
(***************************************************************************)
\* value stored for a header a row has no value for
Null == "None"

\* a scalar as it is written into a record
ValueOf(v) == IF v.kind = "str" THEN v.text ELSE Null

IsTabular(v) == v.kind = "dict" /\ "rows" \in v.keys

\* ScanCells with a break after the first cell whose value is tabular
RECURSIVE ScanCells_first_match(_, _)
ScanCells_first_match(cells, acc) ==
    IF cells = <<>> THEN acc
    ELSE LET v == Head(cells).value
         IN IF IsTabular(v)
            THEN [headers |-> v.headerItems, rows |-> v.rows]
            ELSE ScanCells_first_match(Tail(cells), acc)

\* get_values, the `for cell in section["cells"]` loop: every cell whose
\* value is tabular assigns headers and rows; the loop has no break.
RECURSIVE ScanCells(_, _)
ScanCells(cells, acc) ==
    IF cells = <<>> THEN acc
    ELSE LET v == Head(cells).value
         IN ScanCells(Tail(cells),
                      IF IsTabular(v)
                      THEN [headers |-> v.headerItems, rows |-> v.rows]
                      ELSE acc)

\* get_values, one iteration of its loop: (headers, rows) of one section
NormalizeSection(section) ==
    IF IsTabular(section)
    THEN [headers |-> section.headerItems, rows |-> section.rows]
    ELSE IF section.kind = "dict" /\ "cells" \in section.keys
    THEN ScanCells(section.cells, [headers |-> <<>>, rows |-> <<>>])
    ELSE IF section.kind = "list"
    THEN [headers |-> <<>>, rows |-> section.rows]
    ELSE [headers |-> <<>>, rows |-> <<>>]

\* get_values: headers_by_id and rows_by_id after the loop
get_values(c) ==
    [c EXCEPT
       !.headers_by_id = [id \in DOMAIN c.rows_by_id |->
                             NormalizeSection(c.rows_by_id[id]).headers]
                         @@ c.headers_by_id,
       !.rows_by_id = [id \in DOMAIN c.rows_by_id |->
                          PyList(NormalizeSection(c.rows_by_id[id]).rows)]]

ColName(i) == "col_" \o ToString(i)

\* _extract_row_values: (headers, values) of one row
extract_row_values(row) ==
    IF row.kind = "list"
    THEN [headers |-> [i \in DOMAIN row.rows |-> ColName(i)], values |-> row.rows]
    ELSE IF row.kind = "dict" /\ "cells" \in row.keys
    THEN [headers |-> [i \in DOMAIN row.cells |->
                          IF row.cells[i].title # NoTitle THEN row.cells[i].title
                          ELSE ColName(i)],
          values |-> [i \in DOMAIN row.cells |-> ValueOf(row.cells[i].value)]]
    ELSE [headers |-> <<>>, values |-> <<>>]

\* the dict built by `for i, h in enumerate(eff_headers): record[h] = ...`:
\* a later header of the same name overwrites an earlier one
ColumnsOf(eff_headers, values) ==
    [h \in Range(eff_headers) |->
        LET i == CHOOSE k \in DOMAIN eff_headers :
                    /\ eff_headers[k] = h
                    /\ \A m \in DOMAIN eff_headers : eff_headers[m] = h => m <= k
        IN IF i <= Len(values) THEN values[i] ELSE Null]

\* an output record: person.copy() (the declaration, here its id) plus columns
Record(d_id, cols) == [id |-> d_id, cols |-> cols]

\* RecordsOf that emits nothing for a declaration without rows
RecordsOf_no_placeholder(c, d_id) ==
    LET rows    == IF d_id \in DOMAIN c.rows_by_id THEN c.rows_by_id[d_id] ELSE PyList(<<>>)
        headers == IF d_id \in DOMAIN c.headers_by_id THEN c.headers_by_id[d_id] ELSE <<>>
    IN IF ~Truthy(rows)
       THEN <<>>
       ELSE [k \in DOMAIN rows.rows |->
               LET rv  == extract_row_values(rows.rows[k])
                   eff == IF headers # <<>> THEN headers ELSE rv.headers
               IN Record(d_id, ColumnsOf(eff, rv.values))]

\* merge_and_save, the records of one declaration
RecordsOf(c, d_id) ==
    LET rows    == IF d_id \in DOMAIN c.rows_by_id THEN c.rows_by_id[d_id] ELSE PyList(<<>>)
        headers == IF d_id \in DOMAIN c.headers_by_id THEN c.headers_by_id[d_id] ELSE <<>>
    IN IF ~Truthy(rows)
       THEN << Record(d_id, [h \in Range(headers) |-> Null]) >>
       ELSE [k \in DOMAIN rows.rows |->
               LET rv  == extract_row_values(rows.rows[k])
                   eff == IF headers # <<>> THEN headers ELSE rv.headers
               IN Record(d_id, ColumnsOf(eff, rv.values))]

failed_id_set(c) == {c.failed_items[i].id : i \in DOMAIN c.failed_items}

RECURSIVE MergeFrom(_, _)
MergeFrom(c, decls) ==
    IF decls = <<>> THEN <<>>
    ELSE (IF Head(decls) \in failed_id_set(c) THEN <<>> ELSE RecordsOf(c, Head(decls)))
         \o MergeFrom(c, Tail(decls))

\* merge_and_save that emits records only for declarations with a section
merge_and_save_fetched_only(c) ==
    [c EXCEPT !.final_data =
        MergeFrom(c, SelectSeq(c.declaration_list, LAMBDA d : d \in DOMAIN c.rows_by_id))]

\* merge_and_save: self.final_data
merge_and_save(c) == [c EXCEPT !.final_data = MergeFrom(c, c.declaration_list)]

(***************************************************************************)
(* State.                                                                  *)
(***************************************************************************)
VARIABLES
    remote,          \* the remote API: ids of the declarations the listing returns
    startCalls,      \* start_collection_task calls made so far
    lastStart,       \* how the latest call ended: "none", "ok", "busy", "thread_error"
    rejected,        \* calls that raised "Server is busy"
    stopCalls,       \* stop_task calls made so far
    task_semaphore,  \* task_semaphore._value: free slots
    TASKS,           \* task_manager.TASKS: task id -> job state
    filters,         \* task id -> the filters of its start call
    thread,          \* task id -> where its _worker thread stands
    collector,       \* task id -> its CpcDataCollector and the locals of get_row_data
    saved,           \* task id -> what save_dataset persisted
    stopper,         \* task id -> where a stop_task call on it stands
    hist             \* task id -> history of the job (not program state)

vars == <<remote, startCalls, lastStart, rejected, stopCalls,
          task_semaphore, TASKS, filters, thread, collector, saved, stopper, hist>>

env == <<remote>>

\* The clients.  Against an empty remote listing they start several jobs, which
\* compete for the slots; against a listing of one declaration, two jobs that
\* fetch side by side; against a longer one, a single job.
StartBudget ==
    CASE Len(remote) = 0 -> MaxStarts
      [] Len(remote) = 1 -> 2
      [] OTHER           -> 1

\* stop_task calls the clients make: repeated ones against a listing of one or
\* two declarations, a single one otherwise
StopBudget == IF Len(remote) \in {1, 2} THEN MaxStops ELSE 1

\* row names the clients ask for
StartRows == IF Len(remote) = 0 THEN {"real_estate"} ELSE RowNames

\* retry_ids a client sends: none, one id, or a numeric string and an id no
\* listing holds
RetryChoices == {<<>>, << PyInt(3) >>, << PyStr("2"), PyInt(7) >>}

\* the single job against a listing of two declarations or more may be a retry
StartRetries == IF Len(remote) >= 2 THEN RetryChoices ELSE {<<>>}

TaskIds == DOMAIN TASKS

Terminal == {"finished", "stopped", "error"}

\* TASKS[task_id] = {...}  (start_time is set once and never written again)
NewTask == [status |-> "initializing", progress |-> 0, total |-> 0,
            stop_event |-> FALSE, message |-> "Starting collection..."]

\* CpcDataCollector.__init__, and the locals of get_row_data
NewCollector == [retry_ids |-> <<>>,
                 declaration_list |-> <<>>, rows_by_id |-> <<>>, headers_by_id |-> <<>>,
                 final_data |-> <<>>, failed_items |-> <<>>,
                 future |-> <<>>, futures_set |-> {}, done |-> {}, completed |-> 0]

\* self.declarant_ids: the ids of declaration_list
declarant_ids(c) == c.declaration_list

NotSaved == [present |-> FALSE, data |-> <<>>, failed_ids |-> <<>>, status |-> "",
             total_declarations |-> 0, total_rows |-> 0]

\* save_dataset(task_id, data, metadata, failed_ids) when it returns
save_dataset(data, status, total_declarations, failed_ids) ==
    [present |-> TRUE, data |-> data, failed_ids |-> failed_ids, status |-> status,
     total_declarations |-> total_declarations, total_rows |-> Len(data)]

\* listing: the ids of the listing response the job received, if any;
\* get_values_calls: calls of get_values made one after another, and once:
\* what the first of them left; late: the ids whose detail request returned
\* or raised with the stop signal set
NewHist == [released |-> 0, stop_true |-> FALSE, branch |-> "none",
            fetched |-> <<>>, merged |-> FALSE, callbacks |-> 0,
            listing |-> <<>>, get_values_calls |-> 0,
            once |-> [headers_by_id |-> <<>>, rows_by_id |-> <<>>],
            late |-> {}]

Holders == {t \in TaskIds : hist[t].released = 0}

\* The state after the module is imported: an empty registry and a full
\* semaphore.  The remote listing holds distinct ids (an id is unique within a
\* listing response).
Init ==
    /\ \E n \in 0 .. MaxIds : remote = [i \in 1 .. n |-> i]
    /\ startCalls = 0
    /\ lastStart = "none"
    /\ rejected = 0
    /\ stopCalls = 0
    /\ task_semaphore = Capacity
    /\ TASKS = <<>>
    /\ filters = <<>>
    /\ thread = <<>>
    /\ collector = <<>>
    /\ saved = <<>>
    /\ stopper = <<>>
    /\ hist = <<>>

(***************************************************************************)
(* start_collection_task                                                   *)
(***************************************************************************)
\* sem_acquire with the count off by one
sem_acquire_off_by_one(value) == value >= 0

\* task_semaphore.acquire(blocking=False): whether a slot is granted
sem_acquire(value) == value > 0

\* str(uuid.uuid4()): an id no task has
NewTaskId == Cardinality(TaskIds) + 1

\* start_collection_task_busy with the task registered before the slot is asked for
start_collection_task_busy_registers ==
    /\ startCalls < StartBudget
    /\ ~sem_acquire(task_semaphore)
    /\ startCalls' = startCalls + 1
    /\ lastStart' = "busy"
    /\ rejected' = rejected + 1
    /\ LET t == NewTaskId IN
       /\ TASKS' = (t :> NewTask) @@ TASKS
       /\ filters' = (t :> [row_name |-> "real_estate", retry_ids |-> <<>>]) @@ filters
       /\ thread' = (t :> "no_thread") @@ thread
       /\ collector' = (t :> NewCollector) @@ collector
       /\ saved' = (t :> NotSaved) @@ saved
       /\ stopper' = (t :> "idle") @@ stopper
       /\ hist' = (t :> [NewHist EXCEPT !.released = 1]) @@ hist
    /\ UNCHANGED <<env, stopCalls, task_semaphore>>

\* the call raises "Server is busy" before it touches anything
start_collection_task_busy ==
    /\ startCalls < StartBudget
    /\ ~sem_acquire(task_semaphore)
    /\ startCalls' = startCalls + 1
    /\ lastStart' = "busy"
    /\ rejected' = rejected + 1
    /\ UNCHANGED <<env, stopCalls, task_semaphore, TASKS, filters, thread, collector,
                   saved, stopper, hist>>

\* the call takes a slot, registers the task and starts the thread;
\* thread.start() may raise (RuntimeError: can't start new thread)
start_collection_task_ok ==
    /\ startCalls < StartBudget
    /\ sem_acquire(task_semaphore)
    /\ \E row \in StartRows, retry \in StartRetries, started \in BOOLEAN :
          LET t == NewTaskId IN
          /\ startCalls' = startCalls + 1
          /\ lastStart' = IF started THEN "ok" ELSE "thread_error"
          /\ task_semaphore' = task_semaphore - 1
          /\ TASKS' = (t :> NewTask) @@ TASKS
          /\ filters' = (t :> [row_name |-> row, retry_ids |-> retry]) @@ filters
          /\ thread' = (t :> IF started THEN "start" ELSE "no_thread") @@ thread
          /\ collector' = (t :> NewCollector) @@ collector
          /\ saved' = (t :> NotSaved) @@ saved
          /\ stopper' = (t :> "idle") @@ stopper
          /\ hist' = (t :> NewHist) @@ hist
    /\ UNCHANGED <<env, rejected, stopCalls>>

(***************************************************************************)
(* stop_task: two writes, the event and the status                         *)
(***************************************************************************)
\* TASKS[task_id]["stop_event"].set()
stop_task_set(t) ==
    /\ t \in TaskIds
    /\ stopper[t] = "idle"
    /\ stopCalls < StopBudget
    /\ stopCalls' = stopCalls + 1
    /\ TASKS' = [TASKS EXCEPT ![t].stop_event = TRUE]
    /\ stopper' = [stopper EXCEPT ![t] = "event_set"]
    /\ UNCHANGED <<env, startCalls, lastStart, rejected, task_semaphore, filters, thread,
                   collector, saved, hist>>

\* the status stop_task writes
stop_task_status(status) == "stopping"

\* TASKS[task_id]["status"] = "stopping"; return True
stop_task_return(t) ==
    /\ t \in TaskIds
    /\ stopper[t] = "event_set"
    /\ TASKS' = [TASKS EXCEPT ![t].status = stop_task_status(@)]
    /\ stopper' = [stopper EXCEPT ![t] = "idle"]
    /\ hist' = [hist EXCEPT ![t].stop_true = TRUE]
    /\ UNCHANGED <<env, startCalls, lastStart, rejected, stopCalls, task_semaphore,
                   filters, thread, collector, saved>>

\* get_task_status: the state a status query returns, "not_found" for an id
\* the registry does not hold
get_task_status(tasks, t) ==
    IF t \notin DOMAIN tasks
    THEN [found |-> FALSE, status |-> "not_found", progress |-> 0, total |-> 0,
          message |-> ""]
    ELSE [found |-> TRUE, status |-> tasks[t].status, progress |-> tasks[t].progress,
          total |-> tasks[t].total, message |-> tasks[t].message]

(***************************************************************************)
(* CpcDataCollector: get_declarations, _fetch_single_row, get_row_data     *)
(***************************************************************************)
\* get_declarations that ignores retry_ids
get_declarations_unfiltered(c, stop_event, response) ==
    IF stop_event THEN c
    ELSE IF response = "ok"
    THEN [c EXCEPT !.declaration_list = @ \o remote]
    ELSE c

\* get_declarations: the collector after the call.  response is what the
\* listing request comes to, "ok" or "error" (any exception of _safe_request).
\* With retry_ids, the response is narrowed to the ids in
\* set(map(int, retry_ids)); an int() that raises is caught like a request
\* error.
get_declarations(c, stop_event, response) ==
    IF stop_event THEN c
    ELSE IF response = "ok"
    THEN IF c.retry_ids # <<>>
         THEN IF \E i \in DOMAIN c.retry_ids : int_raises(c.retry_ids[i])
              THEN c
              ELSE LET retry_set == {int(c.retry_ids[i]) : i \in DOMAIN c.retry_ids}
                   IN [c EXCEPT !.declaration_list =
                          @ \o SelectSeq(remote, LAMBDA d : d \in retry_set)]
         ELSE [c EXCEPT !.declaration_list = @ \o remote]
    ELSE c

Queued == [st |-> "queued", result |-> PyNone, reason |-> ""]

Running == [st |-> "running", result |-> PyNone, reason |-> ""]

Cancelled == [st |-> "cancelled", result |-> PyNone, reason |-> ""]

\* a finished future holding (declarant_id, result, error_reason);
\* reason "" is None
Done(result, reason) == [st |-> "done", result |-> result, reason |-> reason]

\* _fetch_single_row from the response on (lines 112-127)
fetch_single_row_response(id, response, stop_event) ==
    IF response \notin {"section", "missing"} THEN Done(PyNone, response)
    ELSE IF stop_event THEN Done(PyNone, "Stopped")
    ELSE IF response = "missing" THEN Done(PyNone, "Data section not found")
    ELSE Done(DetailSection(id), "")

RunningCount(c) == Cardinality({id \in DOMAIN c.future : c.future[id].st = "running"})

\* a pool thread takes a queued future and runs _fetch_single_row up to the request
fetch_single_row_begin(t, id) ==
    /\ t \in TaskIds
    /\ id \in DOMAIN collector[t].future
    /\ collector[t].future[id].st = "queued"
    /\ RunningCount(collector[t]) < MAX_WORKERS
    /\ collector' = [collector EXCEPT ![t].future[id] =
                        IF TASKS[t].stop_event THEN Done(PyNone, "Stopped") ELSE Running]
    /\ UNCHANGED <<env, startCalls, lastStart, rejected, stopCalls, task_semaphore, TASKS,
                   filters, thread, saved, stopper, hist>>

\* the request returns or raises, and _fetch_single_row returns
fetch_single_row_end(t, id) ==
    /\ t \in TaskIds
    /\ id \in DOMAIN collector[t].future
    /\ collector[t].future[id].st = "running"
    /\ \E response \in Responses :
          collector' = [collector EXCEPT ![t].future[id] =
                           fetch_single_row_response(id, response, TASKS[t].stop_event)]
    /\ hist' = [hist EXCEPT ![t].late = IF TASKS[t].stop_event THEN @ \cup {id} ELSE @]
    /\ UNCHANGED <<env, startCalls, lastStart, rejected, stopCalls, task_semaphore, TASKS,
                   filters, thread, saved, stopper>>

\* record_outcome with `elif` turned into `if`: a reason other than "Stopped"
\* (None too) is recorded whatever the result
record_outcome_if(c, declarant_id, result, error_reason) ==
    LET c1 == IF result.kind # "None"
              THEN [c EXCEPT !.rows_by_id = (declarant_id :> result) @@ @]
              ELSE c
    IN IF error_reason # "Stopped"
       THEN [c1 EXCEPT !.failed_items =
                         Append(@, [id |-> declarant_id, reason |-> error_reason])]
       ELSE c1

\* record_outcome that records request errors only
record_outcome_drops_missing(c, declarant_id, result, error_reason) ==
    IF result.kind # "None"
    THEN [c EXCEPT !.rows_by_id = (declarant_id :> result) @@ @]
    ELSE IF error_reason \notin {"Stopped", "Data section not found"}
    THEN [c EXCEPT !.failed_items =
                      Append(@, [id |-> declarant_id, reason |-> error_reason])]
    ELSE c

\* get_row_data, lines 163-170: the outcome of one finished future
record_outcome(c, declarant_id, result, error_reason) ==
    IF result.kind # "None"
    THEN [c EXCEPT !.rows_by_id = (declarant_id :> result) @@ @]
    ELSE IF error_reason # "Stopped"
    THEN [c EXCEPT !.failed_items =
                      Append(@, [id |-> declarant_id, reason |-> error_reason])]
    ELSE c

\* progress_callback that reports the total as the progress
progress_callback_reports_total(tasks, t, completed, total) ==
    IF t \in DOMAIN tasks
    THEN [tasks EXCEPT ![t].progress = total, ![t].total = total,
                       ![t].status = "processing", ![t].message = "Processed"]
    ELSE tasks

\* _worker.progress_callback
progress_callback(tasks, t, completed, total) ==
    IF t \in DOMAIN tasks
    THEN [tasks EXCEPT ![t].progress = completed, ![t].total = total,
                       ![t].status = "processing", ![t].message = "Processed"]
    ELSE tasks

WorkerFrame == UNCHANGED <<env, startCalls, lastStart, rejected, stopCalls, filters, stopper>>

\* get_row_data, lines 130-146: the early returns, else one future per id
get_row_data_submit(t) ==
    /\ t \in TaskIds
    /\ thread[t] = "row_data"
    /\ LET c == collector[t]
           ids == declarant_ids(c)
       IN IF Len(key_chain_of(filters[t].row_name)) = 0 \/ Len(ids) = 0
          THEN /\ thread' = [thread EXCEPT ![t] = "post_fetch"]
               /\ hist' = [hist EXCEPT ![t].fetched = c.rows_by_id]
               /\ UNCHANGED collector
          ELSE /\ thread' = [thread EXCEPT ![t] = "loop_check"]
               /\ collector' = [collector EXCEPT
                                  ![t].future = [id \in Range(ids) |-> Queued],
                                  ![t].futures_set = Range(ids),
                                  ![t].completed = 0]
               /\ UNCHANGED hist
    /\ UNCHANGED <<task_semaphore, TASKS, saved>>
    /\ WorkerFrame

\* `while futures_set:` and the stop check at the head of the loop
get_row_data_check(t) ==
    /\ t \in TaskIds
    /\ thread[t] = "loop_check"
    /\ LET c == collector[t]
       IN IF c.futures_set = {}
          THEN /\ thread' = [thread EXCEPT ![t] = "pool_exit"]
               /\ UNCHANGED collector
          ELSE IF TASKS[t].stop_event
          THEN \* executor.shutdown(wait=False, cancel_futures=True); break
               /\ thread' = [thread EXCEPT ![t] = "pool_exit"]
               /\ collector' = [collector EXCEPT ![t].future =
                                   [id \in DOMAIN @ |->
                                       IF @[id].st = "queued" THEN Cancelled ELSE @[id]]]
          ELSE /\ thread' = [thread EXCEPT ![t] = "loop_wait"]
               /\ UNCHANGED collector
    /\ UNCHANGED <<task_semaphore, TASKS, saved, hist>>
    /\ WorkerFrame

\* concurrent.futures.wait(futures_set, timeout=0.5, FIRST_COMPLETED): the
\* futures finished when it returns (none, when it times out)
get_row_data_wait(t) ==
    /\ t \in TaskIds
    /\ thread[t] = "loop_wait"
    /\ LET c == collector[t]
           done == {id \in c.futures_set : c.future[id].st = "done"}
       IN /\ collector' = [collector EXCEPT ![t].done = done]
          /\ thread' = [thread EXCEPT ![t] = IF done = {} THEN "loop_check" ELSE "loop_proc"]
    /\ UNCHANGED <<task_semaphore, TASKS, saved, hist>>
    /\ WorkerFrame

\* one iteration of `for future in done:` (a set: any order)
get_row_data_process(t) ==
    /\ t \in TaskIds
    /\ thread[t] = "loop_proc"
    /\ \E id \in collector[t].done :
          LET c == collector[t]
              f == c.future[id]
              c1 == record_outcome(c, id, f.result, f.reason)
              completed == c.completed + 1
          IN /\ collector' = [collector EXCEPT ![t] =
                                 [c1 EXCEPT !.futures_set = @ \ {id},
                                            !.done = @ \ {id},
                                            !.completed = completed]]
             /\ TASKS' = progress_callback(TASKS, t, completed, Len(declarant_ids(c)))
             /\ thread' = [thread EXCEPT ![t] =
                              IF c.done = {id} THEN "loop_check" ELSE "loop_proc"]
             /\ hist' = [hist EXCEPT ![t].callbacks = @ + 1]
    /\ UNCHANGED <<task_semaphore, saved>>
    /\ WorkerFrame

\* the end of the `with ThreadPoolExecutor` block: shutdown(wait=True) returns
\* once no pool thread runs a future; get_row_data returns
get_row_data_exit(t) ==
    /\ t \in TaskIds
    /\ thread[t] = "pool_exit"
    /\ RunningCount(collector[t]) = 0
    /\ thread' = [thread EXCEPT ![t] = "post_fetch"]
    /\ hist' = [hist EXCEPT ![t].fetched = collector[t].rows_by_id]
    /\ UNCHANGED <<task_semaphore, TASKS, collector, saved>>
    /\ WorkerFrame

(***************************************************************************)
(* _worker                                                                 *)
(***************************************************************************)
\* the except clause: status "error", message "Error: ..."
worker_except(tasks, t) ==
    [tasks EXCEPT ![t].status = "error", ![t].message = "Error"]

\* lines 55-85: the collector is built; step 1, get_declarations
worker_get_declarations(t) ==
    /\ t \in TaskIds
    /\ thread[t] = "start"
    /\ \E response \in {"ok", "error"} :
          /\ collector' = [collector EXCEPT ![t] =
                              get_declarations([@ EXCEPT !.retry_ids = filters[t].retry_ids],
                                               TASKS[t].stop_event, response)]
          /\ hist' = [hist EXCEPT ![t].listing =
                         IF ~TASKS[t].stop_event /\ response = "ok" THEN remote ELSE <<>>]
    /\ TASKS' = [TASKS EXCEPT ![t].message = "Fetching initial declarations list..."]
    /\ thread' = [thread EXCEPT ![t] = "listed"]
    /\ UNCHANGED <<task_semaphore, saved>>
    /\ WorkerFrame

\* lines 88-103: `if not collector.declaration_list`
worker_check_declarations(t) ==
    /\ t \in TaskIds
    /\ thread[t] = "listed"
    /\ IF collector[t].declaration_list = <<>>
       THEN /\ TASKS' = [TASKS EXCEPT ![t].status = "finished",
                                      ![t].message = "No declarations found."]
            /\ thread' = [thread EXCEPT ![t] = "save_empty"]
            /\ hist' = [hist EXCEPT ![t].branch = "no_declarations"]
       ELSE /\ TASKS' = [TASKS EXCEPT ![t].total = Len(collector[t].declaration_list),
                                      ![t].message = "Downloading detailed row data..."]
            /\ thread' = [thread EXCEPT ![t] = "row_data"]
            /\ UNCHANGED hist
    /\ UNCHANGED <<task_semaphore, collector, saved>>
    /\ WorkerFrame

\* line 98: save_dataset(task_id, [], metadata, []); return -- or it raises
worker_save_empty(t) ==
    /\ t \in TaskIds
    /\ thread[t] = "save_empty"
    /\ \E save_ok \in BOOLEAN :
          IF save_ok
          THEN /\ saved' = [saved EXCEPT ![t] = save_dataset(<<>>, "finished", 0, <<>>)]
               /\ UNCHANGED TASKS
          ELSE /\ TASKS' = worker_except(TASKS, t)
               /\ UNCHANGED saved
    /\ thread' = [thread EXCEPT ![t] = "finally"]
    /\ UNCHANGED <<task_semaphore, collector, hist>>
    /\ WorkerFrame

\* lines 108-110 and 126: `if stop_event.is_set()` after get_row_data
worker_post_fetch(t) ==
    /\ t \in TaskIds
    /\ thread[t] = "post_fetch"
    /\ IF TASKS[t].stop_event
       THEN /\ TASKS' = [TASKS EXCEPT ![t].status = "stopped",
                                      ![t].message = "Process stopped by user."]
            /\ thread' = [thread EXCEPT ![t] = "save_stopped"]
            /\ hist' = [hist EXCEPT ![t].branch = "stopped"]
       ELSE /\ TASKS' = [TASKS EXCEPT ![t].message = "Formatting data..."]
            /\ thread' = [thread EXCEPT ![t] = "save_finished"]
            /\ hist' = [hist EXCEPT ![t].branch = "finished"]
    /\ UNCHANGED <<task_semaphore, collector, saved>>
    /\ WorkerFrame

\* collector.get_values(); collector.merge_and_save()
format_and_merge(c) == merge_and_save(get_values(c))

\* stopped_dataset that keeps the records of fetched declarations only
stopped_dataset_fetched_only(c) ==
    save_dataset(SelectSeq(c.final_data, LAMBDA r : r.id \in DOMAIN c.rows_by_id),
                 "stopped", Len(c.declaration_list), c.failed_items)

\* the dataset the stopped branch hands to save_dataset (lines 112-122)
stopped_dataset(c) ==
    save_dataset(c.final_data, "stopped", Len(c.declaration_list), c.failed_items)

\* the dataset the normal branch hands to save_dataset (lines 127-137)
finished_dataset(c) ==
    save_dataset(c.final_data, "finished", Len(c.declaration_list), c.failed_items)

\* lines 112-123: the stopped branch formats, merges, saves and returns
worker_save_stopped(t) ==
    /\ t \in TaskIds
    /\ thread[t] = "save_stopped"
    /\ LET c1 == format_and_merge(collector[t])
       IN /\ collector' = [collector EXCEPT ![t] = c1]
          /\ \E save_ok \in BOOLEAN :
                IF save_ok
                THEN /\ saved' = [saved EXCEPT ![t] = stopped_dataset(c1)]
                     /\ UNCHANGED TASKS
                ELSE /\ TASKS' = worker_except(TASKS, t)
                     /\ UNCHANGED saved
    /\ thread' = [thread EXCEPT ![t] = "finally"]
    /\ hist' = [hist EXCEPT ![t].merged = TRUE]
    /\ UNCHANGED task_semaphore
    /\ WorkerFrame

\* lines 127-137: step 3 formats, merges and saves
worker_save_finished(t) ==
    /\ t \in TaskIds
    /\ thread[t] = "save_finished"
    /\ LET c1 == format_and_merge(collector[t])
       IN /\ collector' = [collector EXCEPT ![t] = c1]
          /\ \E save_ok \in BOOLEAN :
                IF save_ok
                THEN /\ saved' = [saved EXCEPT ![t] = finished_dataset(c1)]
                     /\ thread' = [thread EXCEPT ![t] = "mark_finished"]
                     /\ UNCHANGED TASKS
                ELSE /\ TASKS' = worker_except(TASKS, t)
                     /\ thread' = [thread EXCEPT ![t] = "finally"]
                     /\ UNCHANGED saved
    /\ hist' = [hist EXCEPT ![t].merged = TRUE]
    /\ UNCHANGED task_semaphore
    /\ WorkerFrame

\* lines 139-140
worker_mark_finished(t) ==
    /\ t \in TaskIds
    /\ thread[t] = "mark_finished"
    /\ TASKS' = [TASKS EXCEPT ![t].status = "finished", ![t].message = "Complete"]
    /\ thread' = [thread EXCEPT ![t] = "finally"]
    /\ UNCHANGED <<task_semaphore, collector, saved, hist>>
    /\ WorkerFrame

\* the finally clause: task_semaphore.release()
worker_finally(t) ==
    /\ t \in TaskIds
    /\ thread[t] = "finally"
    /\ task_semaphore' = task_semaphore + 1
    /\ thread' = [thread EXCEPT ![t] = "done"]
    /\ hist' = [hist EXCEPT ![t].released = @ + 1]
    /\ UNCHANGED <<TASKS, collector, saved>>
    /\ WorkerFrame

(***************************************************************************)
(* Step 3 on its own: get_values and merge_and_save applied to a collector *)
(* as a fetch phase can leave it.  Each listed id has a section of one of  *)
(* the shapes, a FailedItem, or no outcome.                                *)
(***************************************************************************)
\* outcome codes: 0 no outcome, k the k-th shape, Len(SectionShapes) + 1 failed
FailedCode == Len(SectionShapes) + 1

\* the collector the fetch phase leaves for the outcomes o of the listing ids
FetchedCollector(ids, o) ==
    [NewCollector EXCEPT
       !.declaration_list = ids,
       !.rows_by_id = [id \in {d \in Range(ids) : o[d] \in DOMAIN SectionShapes} |->
                          SectionShapes[o[id]]],
       !.failed_items = LET failed == SelectSeq(ids, LAMBDA d : o[d] = FailedCode)
                        IN [i \in DOMAIN failed |-> [id |-> failed[i], reason |-> "Timeout"]]]

\* one job whose fetch phase has returned, unstopped (task_manager.py line 126)
InitFormat ==
    /\ \E n \in 1 .. MaxIds : remote = [i \in 1 .. n |-> i]
    /\ startCalls = 1
    /\ lastStart = "ok"
    /\ rejected = 0
    /\ stopCalls = 0
    /\ task_semaphore = Capacity - 1
    /\ TASKS = (1 :> [NewTask EXCEPT !.total = Len(remote), !.message = "Formatting data..."])
    /\ filters = (1 :> [row_name |-> "real_estate", retry_ids |-> <<>>])
    /\ thread = (1 :> "format")
    /\ \E o \in [Range(remote) -> 0 .. FailedCode] :
          /\ collector = (1 :> FetchedCollector(remote, o))
          /\ hist = (1 :> [NewHist EXCEPT !.branch = "finished", !.listing = remote,
                                          !.fetched = FetchedCollector(remote, o).rows_by_id])
    /\ saved = (1 :> NotSaved)
    /\ stopper = (1 :> "idle")

\* collector.get_values()
format_get_values(t) ==
    /\ t \in TaskIds
    /\ thread[t] = "format"
    /\ hist[t].get_values_calls < MaxGetValues
    /\ LET c1 == get_values(collector[t])
       IN /\ collector' = [collector EXCEPT ![t] = c1]
          /\ hist' = [hist EXCEPT
                         ![t].get_values_calls = @ + 1,
                         ![t].once = IF hist[t].get_values_calls = 0
                                     THEN [headers_by_id |-> c1.headers_by_id,
                                           rows_by_id |-> c1.rows_by_id]
                                     ELSE @]
    /\ UNCHANGED <<task_semaphore, TASKS, thread, saved>>
    /\ WorkerFrame

\* collector.merge_and_save(), after the one get_values of step 3
format_merge_and_save(t) ==
    /\ t \in TaskIds
    /\ thread[t] = "format"
    /\ hist[t].get_values_calls = 1
    /\ collector' = [collector EXCEPT ![t] = merge_and_save(@)]
    /\ thread' = [thread EXCEPT ![t] = "formatted"]
    /\ hist' = [hist EXCEPT ![t].merged = TRUE]
    /\ UNCHANGED <<task_semaphore, TASKS, saved>>
    /\ WorkerFrame

NextFormat ==
    \E t \in 1 .. MaxStarts :
        \/ format_get_values(t)
        \/ format_merge_and_save(t)

SpecFormat == InitFormat /\ [][NextFormat]_vars

(***************************************************************************)
(* The program.                                                            *)
(***************************************************************************)
Next ==
    \/ start_collection_task_busy
    \/ start_collection_task_ok
    \/ \E t \in 1 .. MaxStarts :
          \/ stop_task_set(t)
          \/ stop_task_return(t)
          \/ worker_get_declarations(t)
          \/ worker_check_declarations(t)
          \/ worker_save_empty(t)
          \/ get_row_data_submit(t)
          \/ get_row_data_check(t)
          \/ get_row_data_wait(t)
          \/ get_row_data_process(t)
          \/ get_row_data_exit(t)
          \/ worker_post_fetch(t)
          \/ worker_save_stopped(t)
          \/ worker_save_finished(t)
          \/ worker_mark_finished(t)
          \/ worker_finally(t)
          \/ \E id \in Ids :
                \/ fetch_single_row_begin(t, id)
                \/ fetch_single_row_end(t, id)

Spec == Init /\ [][Next]_vars

(***************************************************************************)
(* Properties.                                                             *)
(***************************************************************************)
\* the fields of a job's state a status query returns
JobState(tasks, t) == [status |-> tasks[t].status, progress |-> tasks[t].progress,
                       total |-> tasks[t].total, message |-> tasks[t].message]

Listed(t) == Range(collector[t].declaration_list)

RecordIds(data) == {data[i].id : i \in DOMAIN data}

RecordCount(data, id) == Cardinality({i \in DOMAIN data : data[i].id = id})

FailureCount(c, id) ==
    Cardinality({i \in DOMAIN c.failed_items : c.failed_items[i].id = id})

\* C1: at most Capacity (2) jobs hold a slot, and the semaphore counts exactly
\* the free slots; a start call is rejected as busy exactly when Capacity jobs
\* hold slots, so it succeeds again once a job has released its slot.
C1_Admission ==
    /\ [](/\ Cardinality(Holders) <= Capacity
          /\ task_semaphore = Capacity - Cardinality(Holders))
    /\ [][startCalls' # startCalls =>
             (lastStart' = "busy" <=> Cardinality(Holders) = Capacity)]_vars

\* C1 witness: a start was rejected, a job then released its slot, and the
\* latest start succeeded.
C1_Witness ==
    /\ rejected >= 1
    /\ lastStart = "ok"
    /\ \E t \in TaskIds : hist[t].released = 1

\* C2: every task that took a slot releases it exactly once: never twice, and
\* once by the time the job is over (its worker ended, or its thread never
\* started).
C2_ReleasedExactlyOnce ==
    \A t \in TaskIds :
        /\ hist[t].released <= 1
        /\ thread[t] \in {"done", "no_thread"} => hist[t].released = 1

\* C3: a start call rejected as busy changes nothing but the record of the
\* call: no registry entry, stop signal, worker or collector is created, and
\* the slot count and every job are as before.
C3_RejectedStartsNothing ==
    [][(startCalls' # startCalls /\ lastStart' = "busy") =>
          UNCHANGED <<task_semaphore, TASKS, filters, thread, collector, saved,
                      stopper, hist>>]_vars

\* C3 witness: a start has been rejected while jobs are registered.
C3_Witness == lastStart = "busy" /\ rejected >= 1 /\ Cardinality(TaskIds) >= Capacity

\* C4: once a job's status is finished, stopped or error, no step changes its
\* state.
C4_TerminalIsFinal ==
    [][\A t \in TaskIds :
          TASKS[t].status \in Terminal => JobState(TASKS', t) = JobState(TASKS, t)]_vars

\* C5: after stop_task has returned true for a job, its status is never set
\* to a non-terminal value that hides the stop (processing, initializing).
C5_StopNotOverwritten ==
    [][\A t \in TaskIds :
          hist[t].stop_true => TASKS'[t].status \notin {"processing", "initializing"}]_vars

\* C6: a job for which stop_task returned true ends stopped: once its worker
\* has ended with its dataset saved and no stop_task call is under way, its
\* status is stopped.
C6_StopEndsStopped ==
    \A t \in TaskIds :
        (/\ hist[t].stop_true
         /\ thread[t] = "done"
         /\ stopper[t] = "idle"
         /\ saved[t].present)
            => TASKS[t].status = "stopped"

\* the persisted dataset of t holds the merged records of every section the
\* fetch recorded, and the failures recorded
PartialResultKept(t) ==
    /\ saved[t].present
    /\ saved[t].failed_ids = collector[t].failed_items
    /\ \A id \in DOMAIN hist[t].fetched :
          LET n == Len(NormalizeSection(hist[t].fetched[id]).rows)
          IN RecordCount(saved[t].data, id) = IF n = 0 THEN 1 ELSE n

\* C7: a job that found the stop signal set when the fetch phase returned, and
\* whose save did not fail, ends with status stopped and a persisted dataset
\* holding the records of every section recorded and the failures.
C7_StoppedKeepsPartial ==
    \A t \in TaskIds :
        (/\ hist[t].branch = "stopped"
         /\ thread[t] = "done"
         /\ stopper[t] = "idle"
         /\ saved[t].present)
            => (TASKS[t].status = "stopped" /\ PartialResultKept(t))

\* the part of C7 about the dataset alone: whatever the stopped branch
\* persists is the partial result
StoppedDatasetIsPartialResult ==
    \A t \in TaskIds :
        (hist[t].branch = "stopped" /\ saved[t].present) => PartialResultKept(t)

\* C8: in every state no identifier has both a section and a FailedItem, and
\* none has two FailedItems.
C8_OutcomesExclusive ==
    \A t \in TaskIds :
        \A id \in Ids :
            /\ ~(id \in DOMAIN collector[t].rows_by_id /\ id \in failed_id_set(collector[t]))
            /\ FailureCount(collector[t], id) <= 1

\* C8 witness: one job holds a section for an identifier and a FailedItem for
\* another while a stop request is in.
C8_Witness ==
    \E t \in TaskIds :
        /\ DOMAIN collector[t].rows_by_id # {}
        /\ collector[t].failed_items # <<>>
        /\ TASKS[t].stop_event

ExactlyOneOutcome(c, id) ==
    \/ id \in DOMAIN c.rows_by_id /\ FailureCount(c, id) = 0
    \/ id \notin DOMAIN c.rows_by_id /\ FailureCount(c, id) = 1

\* C9 as stated: when get_row_data returns with the stop signal never set,
\* every listed identifier has exactly one outcome.
C9_EveryIdResolved ==
    \A t \in TaskIds :
        (thread[t] = "post_fetch" /\ ~TASKS[t].stop_event)
            => \A id \in Listed(t) : ExactlyOneOutcome(collector[t], id)

\* C9 amended: the same, for a row name that rows_dict maps to a key chain.
C9_EveryIdResolvedKnownRow ==
    \A t \in TaskIds :
        (/\ thread[t] = "post_fetch"
         /\ ~TASKS[t].stop_event
         /\ Len(key_chain_of(filters[t].row_name)) > 0)
            => \A id \in Listed(t) : ExactlyOneOutcome(collector[t], id)

\* C9 witness: get_row_data has returned, unstopped, for a known row, with a
\* section for one identifier and a FailedItem for another.
C9_Witness ==
    \E t \in TaskIds :
        /\ thread[t] = "post_fetch"
        /\ ~TASKS[t].stop_event
        /\ Len(key_chain_of(filters[t].row_name)) > 0
        /\ Cardinality(Listed(t)) >= 2
        /\ DOMAIN collector[t].rows_by_id # {}
        /\ collector[t].failed_items # <<>>

\* C10: after the merge every listed identifier is in an output record or in
\* the failure list, and none is in both.
C10_MergePartitions ==
    \A t \in TaskIds :
        hist[t].merged =>
            \A id \in Listed(t) :
                (id \in RecordIds(collector[t].final_data))
                    # (id \in failed_id_set(collector[t]))

\* C10 witness: a stopped job has merged a listing of which one identifier has
\* a section, one a FailedItem and one no outcome.
C10_Witness ==
    \E t \in TaskIds :
        /\ hist[t].merged
        /\ hist[t].branch = "stopped"
        /\ DOMAIN collector[t].rows_by_id # {}
        /\ collector[t].failed_items # <<>>
        /\ \E id \in Listed(t) :
              id \notin DOMAIN collector[t].rows_by_id \cup failed_id_set(collector[t])

\* the ids of the listing response job t got: none when the request failed
\* or was not made
ListingIds(t) == Range(hist[t].listing)

\* the identifiers a retry list names
RetryIdSet(retry_ids) ==
    {n \in Digits : \E i \in DOMAIN retry_ids :
                        retry_ids[i] \in {PyInt(n), PyStr(ToString(n))}}

\* C11: once get_declarations has returned for a job with retry_ids, the
\* identifiers it produced are exactly the ids of the listing response that
\* retry_ids names, each once, and every detail request of the job is for an
\* id of the listing response.
C11_RetryNarrows ==
    \A t \in TaskIds :
        (thread[t] \notin {"start", "no_thread"} /\ filters[t].retry_ids # <<>>)
            => /\ Listed(t) = ListingIds(t) \cap RetryIdSet(filters[t].retry_ids)
               /\ Len(collector[t].declaration_list) = Cardinality(Listed(t))
               /\ DOMAIN collector[t].future \subseteq ListingIds(t)

\* C11 witness: a retry of a string "2" and an id 7 against the listing
\* [1,2,3] has fetched declaration 2 and nothing else.
C11_Witness ==
    \E t \in TaskIds :
        /\ filters[t].retry_ids = << PyStr("2"), PyInt(7) >>
        /\ remote = <<1, 2, 3>>
        /\ collector[t].declaration_list = <<2>>
        /\ DOMAIN collector[t].rows_by_id = {2}
        /\ thread[t] = "post_fetch"

\* the records of declaration id in data, in the order of data
RecordsFor(data, id) == SelectSeq(data, LAMBDA r : r.id = id)

\* the place of x in a sequence that holds it once
PositionIn(seq, x) == CHOOSE i \in DOMAIN seq : seq[i] = x

\* (headers, rows) of the section the fetch recorded for id; none for an id
\* without a section
FetchedRows(t, id) ==
    IF id \in DOMAIN hist[t].fetched
    THEN NormalizeSection(hist[t].fetched[id])
    ELSE [headers |-> <<>>, rows |-> <<>>]

\* the columns of the record of one row under the section's headers
RowColumns(headers, row) ==
    LET rv == extract_row_values(row)
    IN ColumnsOf(IF headers # <<>> THEN headers ELSE rv.headers, rv.values)

\* C12: after get_values and merge_and_save the records follow the listing
\* order; a failed id has no record; a non-failed id with no rows has exactly
\* one record, every header of its section null; a non-failed id with N rows
\* has N records, the k-th built from the k-th row.  The listing [1,2,3] with
\* id 1 tabular (headers A,B, row 10,20), id 2 failed and id 3 an empty list
\* gives the records [1 + {A:10, B:20}, 3] and the failures [2].
C12_MergeEmits ==
    \A t \in TaskIds :
        hist[t].merged =>
            LET c == collector[t]
                data == c.final_data
            IN /\ \A i, j \in DOMAIN data :
                     i < j => PositionIn(c.declaration_list, data[i].id)
                                <= PositionIn(c.declaration_list, data[j].id)
               /\ RecordIds(data) \subseteq Listed(t)
               /\ \A id \in Listed(t) :
                     LET recs == RecordsFor(data, id)
                         f == FetchedRows(t, id)
                     IN IF id \in failed_id_set(c) THEN recs = <<>>
                        ELSE IF f.rows = <<>>
                        THEN recs = << Record(id, [h \in Range(f.headers) |-> Null]) >>
                        ELSE /\ Len(recs) = Len(f.rows)
                             /\ \A k \in DOMAIN recs :
                                   recs[k] = Record(id, RowColumns(f.headers, f.rows[k]))
               /\ (/\ c.declaration_list = <<1, 2, 3>>
                   /\ failed_id_set(c) = {2}
                   /\ DOMAIN hist[t].fetched = {1, 3}
                   /\ hist[t].fetched[1] = Tabular(<<"A", "B">>, << PyList(<<"10", "20">>) >>)
                   /\ hist[t].fetched[3] = PyList(<<>>))
                      => /\ data = << Record(1, ("A" :> "10") @@ ("B" :> "20")),
                                      Record(3, <<>>) >>
                         /\ c.failed_items = << [id |-> 2, reason |-> "Timeout"] >>

\* C12 witness: the scenario of the claim has been merged.
C12_Witness ==
    \E t \in TaskIds :
        /\ hist[t].merged
        /\ collector[t].declaration_list = <<1, 2, 3>>
        /\ failed_id_set(collector[t]) = {2}
        /\ DOMAIN hist[t].fetched = {1, 3}
        /\ hist[t].fetched[1] = Tabular(<<"A", "B">>, << PyList(<<"10", "20">>) >>)
        /\ hist[t].fetched[3] = PyList(<<>>)
        /\ Len(collector[t].final_data) = 2

\* C13: a second get_values on the collector the first one left yields the
\* same headers and rows for every identifier as the first.
C13_NormalizationIdempotent ==
    \A t \in TaskIds :
        hist[t].get_values_calls >= 2 =>
            \A id \in DOMAIN hist[t].once.rows_by_id :
                /\ collector[t].headers_by_id[id] = hist[t].once.headers_by_id[id]
                /\ collector[t].rows_by_id[id] = hist[t].once.rows_by_id[id]

\* the first cell of a cell list whose value is a table
FirstTabular(cells) ==
    LET i == CHOOSE k \in DOMAIN cells :
                /\ IsTabular(cells[k].value)
                /\ \A m \in DOMAIN cells : IsTabular(cells[m].value) => k <= m
    IN cells[i].value

TabularCells(section) == {k \in DOMAIN section.cells : IsTabular(section.cells[k].value)}

\* the last cell of a cell list whose value is a table
LastTabular(cells) ==
    LET i == CHOOSE k \in DOMAIN cells :
                /\ IsTabular(cells[k].value)
                /\ \A m \in DOMAIN cells : IsTabular(cells[m].value) => m <= k
    IN cells[i].value

\* C19 as stated: for a section that wraps cells of which more than one holds
\* a table, get_values adopts the headers and rows of the first such cell.
C19_FirstTabularCellWins ==
    \A t \in TaskIds :
        hist[t].get_values_calls = 1 =>
            \A id \in DOMAIN hist[t].fetched :
                LET section == hist[t].fetched[id]
                IN (/\ section.kind = "dict"
                    /\ "cells" \in section.keys
                    /\ Cardinality(TabularCells(section)) > 1)
                      => /\ collector[t].headers_by_id[id]
                              = FirstTabular(section.cells).headerItems
                         /\ collector[t].rows_by_id[id]
                              = PyList(FirstTabular(section.cells).rows)

\* C19 amended: for a section that wraps cells of which more than one holds a
\* table, get_values adopts the headers and rows of the last such cell.
C19_LastTabularCellWins ==
    \A t \in TaskIds :
        hist[t].get_values_calls = 1 =>
            \A id \in DOMAIN hist[t].fetched :
                LET section == hist[t].fetched[id]
                IN (/\ section.kind = "dict"
                    /\ "cells" \in section.keys
                    /\ Cardinality(TabularCells(section)) > 1)
                      => /\ collector[t].headers_by_id[id]
                              = LastTabular(section.cells).headerItems
                         /\ collector[t].rows_by_id[id]
                              = PyList(LastTabular(section.cells).rows)

\* C19 witness: get_values has normalized a section whose first and third
\* cells hold tables of different headers.
C19_Witness ==
    \E t \in TaskIds :
        /\ hist[t].get_values_calls = 1
        /\ \E id \in DOMAIN hist[t].fetched :
              LET section == hist[t].fetched[id]
              IN /\ section.kind = "dict"
                 /\ "cells" \in section.keys
                 /\ Cardinality(TabularCells(section)) > 1
                 /\ FirstTabular(section.cells).headerItems
                        # LastTabular(section.cells).headerItems
                 /\ collector[t].headers_by_id[id] # <<>>

\* C14: a stop_task call changes the status of a job only when it is
\* processing, and then to stopping; on any other status it leaves the status
\* as it was.
C14_StopOnlyFromProcessing ==
    [][\A t \in TaskIds :
          (stopper[t] = "event_set" /\ stopper'[t] = "idle")
              => TASKS'[t].status = IF TASKS[t].status = "processing"
                                    THEN "stopping"
                                    ELSE TASKS[t].status]_vars

\* the edges of the job life cycle
StatusEdges ==
    {<<"initializing", "processing">>, <<"processing", "finished">>,
     <<"processing", "stopped">>, <<"processing", "error">>,
     <<"processing", "stopping">>, <<"stopping", "stopped">>}

\* C15: every change of a job's status follows an edge of the life cycle.
C15_StatusEdges ==
    [][\A t \in TaskIds :
          TASKS'[t].status # TASKS[t].status
              => <<TASKS[t].status, TASKS'[t].status>> \in StatusEdges]_vars

\* the part of C15 about stopping: no status moves from stopping back to
\* processing or to finished
C15_NoWayBackFromStopping ==
    [][\A t \in TaskIds :
          TASKS[t].status = "stopping"
              => TASKS'[t].status \notin {"processing", "finished"}]_vars

\* C16: no identifier whose detail request returned or raised after the stop
\* signal was set has a FailedItem.
C16_LateResultsDiscarded ==
    \A t \in TaskIds :
        \A id \in hist[t].late : id \notin failed_id_set(collector[t])

\* outcomes recorded by job t: sections and FailedItems
RecordedOutcomes(t) ==
    Cardinality(DOMAIN collector[t].rows_by_id) + Len(collector[t].failed_items)

\* C17: the progress callback has been invoked once per recorded outcome, and
\* the completed count has advanced once per recorded outcome: a discarded
\* "Stopped" result advances neither.
C17_CallbackPerOutcome ==
    \A t \in TaskIds :
        /\ hist[t].callbacks = RecordedOutcomes(t)
        /\ collector[t].completed = RecordedOutcomes(t)

\* C18: every progress callback of a job is made by its _worker thread inside
\* the loop over finished futures, one at a time; the k-th reports completed
\* = k, one more than the one before and at most total; nothing else changes
\* the progress, and progress <= total in every state.
C18_CallbacksSerial ==
    /\ [](\A t \in TaskIds :
             /\ TASKS[t].progress <= TASKS[t].total
             /\ TASKS[t].progress = hist[t].callbacks)
    /\ [][\A t \in TaskIds :
             \/ /\ hist'[t].callbacks = hist[t].callbacks
                /\ TASKS'[t].progress = TASKS[t].progress
             \/ /\ thread[t] = "loop_proc"
                /\ hist'[t].callbacks = hist[t].callbacks + 1
                /\ TASKS'[t].progress = TASKS[t].progress + 1
                /\ TASKS'[t].progress = collector'[t].completed
                /\ TASKS'[t].progress <= TASKS'[t].total
                /\ TASKS'[t].total = Len(collector[t].declaration_list)]_vars

\* C18 witness: a job has made a callback, more are to come, and two fetch
\* workers are running.
C18_Witness ==
    \E t \in TaskIds :
        /\ TASKS[t].progress >= 1
        /\ TASKS[t].progress < TASKS[t].total
        /\ RunningCount(collector[t]) >= 2

\* C20: a job whose listing request failed, or was skipped because the stop
\* signal was set, has an empty declaration list and issues no detail
\* request; once it is over with its dataset saved, it has persisted an empty
\* dataset and its status is finished with "No declarations found.".
C20_ListingFailureEndsFinished ==
    \A t \in TaskIds :
        (thread[t] \notin {"start", "no_thread"} /\ remote # <<>> /\ hist[t].listing = <<>>)
            => /\ collector[t].declaration_list = <<>>
               /\ DOMAIN collector[t].future = {}
               /\ (thread[t] = "done" /\ stopper[t] = "idle" /\ saved[t].present)
                     => /\ saved[t].data = <<>>
                        /\ TASKS[t].status = "finished"
                        /\ TASKS[t].message = "No declarations found."

\* the ids of job t whose fetch ended in a failure: a request error or a
\* document without the section
FailedFetches(t) ==
    {id \in DOMAIN collector[t].future :
        /\ collector[t].future[id].st = "done"
        /\ collector[t].future[id].result.kind = "None"
        /\ collector[t].future[id].reason # "Stopped"}

\* the part of C21 about containment: a FailedItem is recorded for an id
\* whose fetch failed and for no other, the status error arises from a
\* failed save alone, and in an unstopped run every other id has its outcome
FetchFailureContained ==
    \A t \in TaskIds :
        collector[t].failed_items # <<>> =>
            /\ failed_id_set(collector[t]) \subseteq FailedFetches(t)
            /\ TASKS[t].status = "error"
                  => (thread[t] \in {"finally", "done"} /\ ~saved[t].present)
            /\ (thread[t] = "post_fetch" /\ ~TASKS[t].stop_event)
                  => \A id \in Listed(t) : ExactlyOneOutcome(collector[t], id)

\* C21: a fetch failure gives a FailedItem for its id only, does not move the
\* job to error, leaves the outcomes of the other ids recorded, and the job,
\* once over with its dataset saved, is finished or stopped.
C21_FailureContained ==
    /\ FetchFailureContained
    /\ \A t \in TaskIds :
          (/\ collector[t].failed_items # <<>>
           /\ thread[t] = "done"
           /\ stopper[t] = "idle"
           /\ saved[t].present)
              => TASKS[t].status \in {"finished", "stopped"}

\* C22: a stop_task call on a job for which an earlier call has returned
\* leaves the stop signal and the job state as they were; the stop signal,
\* once set, stays set.
C22_StopIdempotent ==
    [][\A t \in TaskIds :
          /\ TASKS[t].stop_event => TASKS'[t].stop_event
          /\ (hist[t].stop_true /\ stopper'[t] # stopper[t])
                => /\ TASKS'[t].stop_event = TASKS[t].stop_event
                   /\ JobState(TASKS', t) = JobState(TASKS, t)]_vars

\* the part of C22 about irreversibility: the stop signal is never cleared
StopSignalStaysSet ==
    [][\A t \in TaskIds : TASKS[t].stop_event => TASKS'[t].stop_event]_vars

\* no step takes a job out of the registry
RegistryOnlyGrows == [][DOMAIN TASKS \subseteq DOMAIN TASKS']_vars

\* C23: a job in a terminal state is evicted in the end: while a status query
\* still finds a terminal job, the program has a step left to take.
C23_TerminalJobsEvicted ==
    \A t \in 1 .. MaxStarts :
        (get_task_status(TASKS, t).found /\ get_task_status(TASKS, t).status \in Terminal)
            => ENABLED Next

\* C24: whenever a status query shows a job as finished or stopped, its
\* dataset has been persisted.
C24_SavedBeforeTerminal ==
    \A t \in TaskIds :
        get_task_status(TASKS, t).status \in {"finished", "stopped"} => saved[t].present

\* listed ids of job t without a section and without a FailedItem
Unresolved(t) ==
    Listed(t) \ (DOMAIN collector[t].rows_by_id \cup failed_id_set(collector[t]))

\* the rows a dataset holds for the ids of a sequence: none for a failed id,
\* one for an id without rows, else one per row of its section
RECURSIVE ExpectedRows(_, _)
ExpectedRows(t, ids) ==
    IF ids = <<>> THEN 0
    ELSE (IF Head(ids) \in failed_id_set(collector[t]) THEN 0
          ELSE IF Len(FetchedRows(t, Head(ids)).rows) = 0 THEN 1
          ELSE Len(FetchedRows(t, Head(ids)).rows))
         + ExpectedRows(t, Tail(ids))

\* C25: the dataset a stopped job persists holds, for every listed id without
\* section and without FailedItem, exactly one record of the metadata alone,
\* and its total_rows counts one row for each such id, as for a fetched id
\* without rows.
C25_UnfetchedYieldOneRecord ==
    \A t \in TaskIds :
        (hist[t].branch = "stopped" /\ saved[t].present) =>
            /\ \A id \in Unresolved(t) :
                  RecordsFor(saved[t].data, id) = << Record(id, <<>>) >>
            /\ saved[t].total_rows = Len(saved[t].data)
            /\ saved[t].total_rows = ExpectedRows(t, collector[t].declaration_list)

\* C25 witness: a stopped job has saved a dataset for a listing of which one
\* id was fetched with an empty section, one has rows and one has no outcome.
C25_Witness ==
    \E t \in TaskIds :
        /\ hist[t].branch = "stopped"
        /\ saved[t].present
        /\ Unresolved(t) # {}
        /\ \E id \in DOMAIN hist[t].fetched : Len(FetchedRows(t, id).rows) = 0
        /\ \E id \in DOMAIN hist[t].fetched : Len(FetchedRows(t, id).rows) > 0
        /\ saved[t].total_rows = 3

=============================================================================
